---- MODULE Spec2Model ----
(***************************************************************************)
(* Log export pipeline of otel-cf-workers: the batching log record        *)
(* processors (src/logs/logprocessor.ts), the log transports, and the     *)
(* handler flow that flushes telemetry through ctx.waitUntil (src/sdk.ts). *)
(* Further: configuration resolution and one-shot init (src/config.ts,    *)
(* src/sdk.ts), trace buckets and tail sampling, and the propagation of   *)
(* the trace context through Durable Object RPC and inbound requests.     *)
(***************************************************************************)
EXTENDS Integers, Sequences, FiniteSets, TLC

\* ---------------------------------------------------------------- bounds
MaxEmit == 4        \* onEmit calls made on the processor
MaxQueue == 3       \* largest configured maxQueueSize / maxExportBatchSize
MaxFlush == 2       \* forceFlush calls made on the processor

VARIABLES
    config,          \* BatchConfig the processor was constructed with
    logRecords,      \* BatchSizeLogRecordProcessor.logRecords
    exportPromises,  \* <processor>.exportPromises (indices into exports)
    exports,         \* every promise returned by export() / exportLog()
    flushes,         \* every forceFlush() call made on the processor
    nEmitted,        \* number of onEmit calls so far; record ids are 1..nEmitted
    tx,              \* one LogTransport.export(logs, callback) call
    tracing,         \* whether a trace configuration was resolved (WorkerTracer)
    inv,             \* the handler invocations made through the handler proxy
    initialised,     \* sdk.ts: let initialised
    cold_start,      \* sdk.ts: let cold_start
    provider,        \* the globally registered tracer and logger providers
    calls,           \* handler proxy calls made in one isolate
    contexts,        \* the Context objects that exist, by identity
    ratio,           \* the ratio of the configured head sampler
    buckets,         \* the trace buckets of the span processor, oldest first
    spanExports,     \* the export calls made on the span exporter
    rpc,             \* one Durable Object RPC call, from stub to target method
    req,             \* one request to the fetch handler and its root span
    out,             \* one outbound call through an instrumented fetch function
    rec,             \* one LogRecordImpl construction
    lg,              \* a chain of child loggers and the records they emit
    entry,           \* one invocation of an instrumented entry point
    con              \* console calls under instrumentConsole

\* the isolate-wide state of init and of the active configuration
isolateVars == <<initialised, cold_start, provider, calls, contexts>>

\* the state of the span processor
traceVars == <<ratio, buckets, spanExports>>

\* the calls that carry a trace context across a boundary
propagationVars == <<rpc, req>>

\* the single operations that are followed on their own
unitVars == <<out, rec, lg, entry, con>>

\* what the log pipeline and the handler flow leave alone
otherVars == <<isolateVars, traceVars, propagationVars, unitVars>>

procVars == <<config, logRecords, exportPromises, exports, flushes, nEmitted>>

\* what the processor's own steps leave alone
nonProcVars == <<tx, tracing, inv, otherVars>>

vars == <<procVars, nonProcVars>>

\* ------------------------------------------------------------ helpers
Range(s) == {s[i] : i \in 1..Len(s)}

Min(a, b) == IF a <= b THEN a ELSE b

\* Array.prototype.splice(0, n): the removed prefix and what stays behind
SpliceTaken(q, n) == SubSeq(q, 1, Min(n, Len(q)))
SpliceRest(q, n) == SubSeq(q, Min(n, Len(q)) + 1, Len(q))

Settled(st) == st \in {"resolved", "rejected"}

\* Promise.all(ps) instead: rejected as soon as one input is rejected
PromiseAll(states) ==
    IF "rejected" \in states THEN "rejected"
    ELSE IF \E s \in states : ~Settled(s) THEN "pending"
    ELSE "resolved"

\* Promise.allSettled(ps): pending until every input settled, then fulfilled
PromiseAllSettled(states) ==
    IF \E s \in states : ~Settled(s) THEN "pending" ELSE "resolved"

\* ------------------------------------------------------------ processor
\* createLogProcessor: strategy 'immediate' | 'size'
Strategies == {"immediate", "size"}

\* BatchConfig with positive sizes; the immediate processor reads neither size
Configs == [strategy : Strategies, maxQueueSize : 1..MaxQueue,
            maxExportBatchSize : 1..MaxQueue]

InitProcessor ==
    /\ config \in {c \in Configs :
                     c.strategy = "immediate" =>
                        c.maxQueueSize = 1 /\ c.maxExportBatchSize = 1}
    /\ logRecords = <<>>
    /\ exportPromises = <<>>
    /\ exports = <<>>
    /\ flushes = <<>>
    /\ nEmitted = 0

\* The promise an async export()/exportLog() call returns: an empty batch
\* returns at once, otherwise the call is suspended in scheduler.wait(1).
NewExport(batch, by) ==
    [batch |-> batch, by |-> by,
     st |-> IF batch = <<>> THEN "resolved" ELSE "waiting"]

\* BatchSizeLogRecordProcessor constructor: config?.maxQueueSize ?? 512
DefaultMaxQueueSize == 512

\* the auto-flush test against the default size instead of the configured one
QueueFullIgnoringConfig(len, cfg) == len >= DefaultMaxQueueSize

\* onEmit's auto-flush test: this.logRecords.length >= this.maxQueueSize
QueueFull(len, cfg) == len >= cfg.maxQueueSize

\* a batch of the newest queued records instead of the oldest
ExportBatchNewest(q, cfg) ==
    LET n == Min(cfg.maxExportBatchSize, Len(q)) IN
    SubSeq(q, Len(q) - n + 1, Len(q))

\* export(): const batch = this.logRecords.splice(0, this.maxExportBatchSize)
ExportBatch(q, cfg) == SpliceTaken(q, cfg.maxExportBatchSize)

\* slice(0, n) instead of splice(0, n): the queue keeps the batch
ExportRestSliced(q, cfg) == q

\* export(): this.logRecords once the batch is spliced off
ExportRest(q, cfg) == SpliceRest(q, cfg.maxExportBatchSize)

\* an export of every record emitted so far instead of the one record
ImmediateBatchWithBacklog(r) == [i \in 1..r |-> i]

\* exportLog(logRecord): this.transport.export([logRecord], ...)
ImmediateBatch(r) == <<r>>

\* this.exportPromises.push(this.export()) in the size processor: the state
\* of queue, promise list and promise table after the synchronous part
AfterExport(q, by) ==
    [q    |-> ExportRest(q, config),
     eps  |-> Append(exportPromises, Len(exports) + 1),
     exps |-> Append(exports, NewExport(ExportBatch(q, config), by))]

\* ImmediateLogRecordProcessor.onEmit / BatchSizeLogRecordProcessor.onEmit
EmitRecord ==
    LET r == nEmitted + 1 IN
    /\ nEmitted' = r
    /\ IF config.strategy = "immediate"
       THEN /\ exports' = Append(exports, NewExport(ImmediateBatch(r), "emit"))
            /\ exportPromises' = Append(exportPromises, Len(exports) + 1)
            /\ UNCHANGED logRecords
       ELSE LET q == Append(logRecords, r) IN
            IF QueueFull(Len(q), config)
            THEN LET a == AfterExport(q, "emit") IN
                 /\ logRecords' = a.q
                 /\ exportPromises' = a.eps
                 /\ exports' = a.exps
            ELSE /\ logRecords' = q
                 /\ UNCHANGED <<exportPromises, exports>>
    /\ UNCHANGED <<config, flushes>>

OnEmit ==
    /\ nEmitted < MaxEmit
    /\ EmitRecord
    /\ UNCHANGED nonProcVars

\* A forceFlush() call is "consecutive" when the previous call has resolved
\* and no onEmit was made since that previous call was made.
IsConsecutive ==
    /\ flushes # <<>>
    /\ flushes[Len(flushes)].st = "resolved"
    /\ flushes[Len(flushes)].atEmit = nEmitted

\* forceFlush() up to its await: the size processor starts one export() when
\* records are queued; either processor then awaits
\* Promise.allSettled(this.exportPromises) when that list is not empty.
CallForceFlush ==
    LET starts == config.strategy = "size" /\ Len(logRecords) > 0
        a == IF starts THEN AfterExport(logRecords, "flush")
             ELSE [q |-> logRecords, eps |-> exportPromises, exps |-> exports]
    IN
    /\ logRecords' = a.q
    /\ exportPromises' = a.eps
    /\ exports' = a.exps
    /\ flushes' = Append(flushes,
          [snap |-> Range(a.eps),
           st |-> IF a.eps = <<>> THEN "resolved" ELSE "awaiting",
           atEmit |-> nEmitted,
           consecutive |-> IsConsecutive,
           started |-> IF starts THEN Len(a.exps) ELSE 0])
    /\ UNCHANGED <<config, nEmitted>>

ForceFlush ==
    /\ Len(flushes) < MaxFlush
    /\ CallForceFlush
    /\ UNCHANGED nonProcVars

\* forceFlush() after its await: this.exportPromises = []
ResumeForceFlush(f) ==
    LET res == PromiseAllSettled({exports[e].st : e \in flushes[f].snap}) IN
    /\ flushes[f].st = "awaiting"
    /\ res # "pending"
    /\ flushes' = [flushes EXCEPT ![f].st = res]
    /\ exportPromises' = IF res = "resolved" THEN <<>> ELSE exportPromises
    /\ UNCHANGED <<config, logRecords, exports, nEmitted>>
    /\ UNCHANGED nonProcVars

\* scheduler.wait(1) elapses for the oldest suspended export (timers of equal
\* delay fire in the order they were set): transport.export(batch, cb) is called
TimerFires(e) ==
    /\ exports[e].st = "waiting"
    /\ \A d \in 1..(e - 1) : exports[d].st # "waiting"
    /\ exports' = [exports EXCEPT ![e].st = "called"]
    /\ UNCHANGED <<config, logRecords, exportPromises, flushes, nEmitted>>
    /\ UNCHANGED nonProcVars

\* the transport invokes the callback: SUCCESS resolves, anything else rejects
ExportCallback(e, code) ==
    /\ exports[e].st = "called"
    /\ exports' = [exports EXCEPT
                     ![e].st = IF code = "SUCCESS" THEN "resolved" ELSE "rejected"]
    /\ UNCHANGED <<config, logRecords, exportPromises, flushes, nEmitted>>
    /\ UNCHANGED nonProcVars

ResultCodes == {"SUCCESS", "FAILED"}

\* no transport call is modelled on its own while the processor runs
IdleTx == [pc |-> "none"]

\* no handler invocation is modelled while the processor runs on its own
NoInvocations == <<>>

\* no provider is registered: getGlobalLoggerProvider() gives the no-op one
NoProvider ==
    [tracer |-> FALSE, spanProcessors |-> {},
     logger |-> FALSE, logProcessors |-> {},
     console |-> FALSE, propagator |-> 0]

\* ROOT_CONTEXT, the Context that is active when the runtime calls a handler:
\* it holds neither configuration symbol (0 stands for undefined)
RootContext == 1

EmptyContext == [trace |-> 0, logs |-> 0]

\* the isolate before any handler was called
InitIsolate ==
    /\ initialised = FALSE
    /\ cold_start = TRUE
    /\ provider = NoProvider
    /\ calls = <<>>
    /\ contexts = <<EmptyContext>>

\* headSampler default { ratio: 1 }
DefaultRatio == 1

\* no span was started
IdleTrace ==
    /\ ratio = DefaultRatio
    /\ buckets = <<>>
    /\ spanExports = <<>>

\* no RPC call and no request
IdlePropagation ==
    /\ rpc = [pc |-> "none"]
    /\ req = [pc |-> "none"]

\* none of the single operations was made
IdleUnits ==
    /\ out = [pc |-> "none"]
    /\ rec = [pc |-> "none"]
    /\ lg = [pc |-> "none"]
    /\ entry = [pc |-> "none"]
    /\ con = [pc |-> "none"]

\* the parts of the program a specification does not exercise
IdleOther == InitIsolate /\ IdleTrace /\ IdlePropagation /\ IdleUnits

Init ==
    /\ InitProcessor
    /\ tx = IdleTx
    /\ tracing = FALSE
    /\ inv = NoInvocations
    /\ IdleOther

Next ==
    \/ OnEmit
    \/ ForceFlush
    \/ \E f \in 1..Len(flushes) : ResumeForceFlush(f)
    \/ \E e \in 1..Len(exports) : TimerFires(e)
    \/ \E e \in 1..Len(exports), code \in ResultCodes : ExportCallback(e, code)

Spec == Init /\ [][Next]_vars

\* ------------------------------------------------- observations on Spec
\* the export() calls that reached transport.export, in call order
TransportCalls ==
    {e \in 1..Len(exports) : exports[e].batch # <<>> /\ exports[e].st # "waiting"}

AllExportsSettled == \A e \in 1..Len(exports) : Settled(exports[e].st)

AllFlushesResolved == \A f \in 1..Len(flushes) : flushes[f].st # "awaiting"

Batched == UNION {Range(exports[e].batch) : e \in 1..Len(exports)}

\* ceil(a / b) for b >= 1
CeilDiv(a, b) == (a + b - 1) \div b

\* C1: after a sequence of onEmit calls followed by one forceFlush(), when
\* that forceFlush has resolved the pending queue is empty and every export
\* the processor started has settled.
C1_ForceFlushDrains ==
    (/\ Len(flushes) = 1
     /\ flushes[1].st = "resolved"
     /\ flushes[1].atEmit = nEmitted)
    => (logRecords = <<>> /\ AllExportsSettled)

\* C2: under the size strategy the queue never holds more than maxQueueSize
\* records, no emitted record is dropped (each is still queued or was handed
\* to an export), and what an export takes are the oldest records.
C2_QueueBounded ==
    config.strategy = "size" =>
        /\ Len(logRecords) <= config.maxQueueSize
        /\ Range(logRecords) \cup Batched = 1..nEmitted
        /\ \A r \in Batched, q \in Range(logRecords) : r < q

\* C2 witness: an append that reached the bound started an export
C2_Witness ==
    /\ config.strategy = "size"
    /\ nEmitted > config.maxQueueSize
    /\ \E e \in 1..Len(exports) :
          exports[e].by = "emit" /\ exports[e].batch # <<>>

\* C3: size strategy, maxQueueSize = N, 1 <= maxExportBatchSize <= N: once
\* N+1 records were emitted and flushed and everything has settled, there
\* were ceil((N+1)/maxExportBatchSize) transport export calls, each of at
\* most maxExportBatchSize records.
C3_ExportCallCount ==
    (/\ config.strategy = "size"
     /\ config.maxExportBatchSize <= config.maxQueueSize
     /\ nEmitted = config.maxQueueSize + 1
     /\ flushes # <<>>
     /\ flushes[Len(flushes)].atEmit = nEmitted
     /\ AllFlushesResolved
     /\ AllExportsSettled)
    => /\ Cardinality(TransportCalls)
            = CeilDiv(config.maxQueueSize + 1, config.maxExportBatchSize)
       /\ \A e \in TransportCalls :
            Len(exports[e].batch) <= config.maxExportBatchSize

\* C4: a forceFlush() called right after a resolved forceFlush(), with no
\* onEmit in between, starts no transport export.
C4_SecondFlushIdle ==
    \A f \in 1..Len(flushes) :
        flushes[f].consecutive =>
            \/ flushes[f].started = 0
            \/ exports[flushes[f].started].batch = <<>>

\* C5: under the immediate strategy the k-th onEmit starts its own export
\* of exactly that one record, and once no export is still suspended there
\* were exactly k transport export calls.
C5_ImmediateOnePerRecord ==
    config.strategy = "immediate" =>
        /\ Len(exports) = nEmitted
        /\ \A e \in 1..Len(exports) : exports[e].batch = <<e>>
        /\ (\A e \in 1..Len(exports) : exports[e].st # "waiting")
              => Cardinality(TransportCalls) = nEmitted

\* C5 witness: two records emitted, two one-record transport calls made
C5_Witness ==
    /\ config.strategy = "immediate"
    /\ nEmitted = 2
    /\ TransportCalls = {1, 2}
    /\ AllExportsSettled

\* C8: no record is handed to the transport twice: the batches of all
\* exports are pairwise disjoint and free of duplicates, and a record taken
\* into a batch (also one whose export FAILED) is not in the queue any more.
C8_SingleAttempt ==
    /\ \A e1, e2 \in 1..Len(exports) :
          e1 # e2 => Range(exports[e1].batch) \cap Range(exports[e2].batch) = {}
    /\ \A e \in 1..Len(exports) :
          /\ Cardinality(Range(exports[e].batch)) = Len(exports[e].batch)
          /\ Range(exports[e].batch) \cap Range(logRecords) = {}

\* C8 witness: an export FAILED and a later export reached the transport
C8_Witness ==
    \E e1, e2 \in 1..Len(exports) :
        /\ e1 < e2
        /\ exports[e1].st = "rejected"
        /\ e2 \in TransportCalls
        /\ logRecords # <<>>

\* ------------------------------------------------------------ transports
MaxBatch == 2       \* longest batch handed to a transport on its own

\* log.severityNumber ?? 0 of the records, and the levels a transport is
\* configured with through levelToSeverity (TRACE = 1, INFO = 9)
Severities == {0, 9, 17}
MinSeverities == {1, 9}
TransportKinds == {"otlp", "console"}

\* status codes a POST may come back with; NoStatus while none came back
HttpStatuses == {200, 299, 300, 404, 500}
NoStatus == 0

SeqsUpTo(S, n) == UNION {[1..k -> S] : k \in 0..n}

\* logs.filter((log) => (log.severityNumber ?? 0) >= this.minSeverity)
FilterLogs(logs, minSeverity) ==
    SelectSeq(logs, LAMBDA sev : sev >= minSeverity)

\* send() without its `if (!response.ok) throw`
ResponseOkUnchecked(status) == TRUE

\* response.ok
ResponseOk(status) == status \in 200..299

Result(code, error) == [code |-> code, error |-> error]

\* callback(result) invoked from a try block or a then-handler whose catch
\* calls callback again: the results the callback has been given
\* afterwards, and whether the last invocation threw
CallbackThenCatch(first, cbThrows) ==
    IF cbThrows /\ first.code = "SUCCESS"
    THEN <<first, Result("FAILED", "CallbackError")>>
    ELSE <<first>>

InitTransport ==
    /\ config = [strategy |-> "immediate", maxQueueSize |-> 1,
                 maxExportBatchSize |-> 1]
    /\ logRecords = <<>>
    /\ exportPromises = <<>>
    /\ exports = <<>>
    /\ flushes = <<>>
    /\ nEmitted = 0
    /\ tracing = FALSE
    /\ inv = NoInvocations
    /\ IdleOther
    /\ \E kind \in TransportKinds, logs \in SeqsUpTo(Severities, MaxBatch),
          min \in MinSeverities, cbThrows \in BOOLEAN, serializable \in BOOLEAN :
          tx = [pc |-> "init", kind |-> kind, logs |-> logs,
                minSeverity |-> min, cbThrows |-> cbThrows,
                serializable |-> serializable, results |-> <<>>,
                exportThrew |-> FALSE, posted |-> FALSE, http |-> NoStatus,
                fetchRejected |-> FALSE]

\* OTLPTransport.export up to its return
OtlpExport ==
    LET filtered == FilterLogs(tx.logs, tx.minSeverity) IN
    /\ tx.pc = "init"
    /\ tx.kind = "otlp"
    /\ tx' = IF filtered = <<>>
             THEN [tx EXCEPT !.pc = "done",
                             !.results = <<Result("SUCCESS", "none")>>,
                             !.exportThrew = tx.cbThrows]
             ELSE IF tx.serializable
             THEN [tx EXCEPT !.pc = "fetching", !.posted = TRUE]
             ELSE [tx EXCEPT !.pc = "sendThrew"]
    /\ UNCHANGED <<procVars, tracing, inv, otherVars>>

\* send(): the fetch resolves with a response; then/catch of export() run
FetchSettles(status) ==
    /\ tx.pc = "fetching"
    /\ tx' = [tx EXCEPT
                !.pc = "done",
                !.http = status,
                !.results =
                    IF ResponseOk(status)
                    THEN CallbackThenCatch(Result("SUCCESS", "none"), tx.cbThrows)
                    ELSE <<Result("FAILED", "OTLPExporterError")>>]
    /\ UNCHANGED <<procVars, tracing, inv, otherVars>>

\* send(): the fetch rejects (a transport exception)
FetchRejects ==
    /\ tx.pc = "fetching"
    /\ tx' = [tx EXCEPT !.pc = "done",
                        !.fetchRejected = TRUE,
                        !.results = <<Result("FAILED", "NetworkError")>>]
    /\ UNCHANGED <<procVars, tracing, inv, otherVars>>

\* send(): transformToOTLP / JSON.stringify threw, the promise is rejected
SendThrew ==
    /\ tx.pc = "sendThrew"
    /\ tx' = [tx EXCEPT !.pc = "done",
                        !.results = <<Result("FAILED", "SerializationError")>>]
    /\ UNCHANGED <<procVars, tracing, inv, otherVars>>

\* ConsoleTransport.export: synchronous, the callback is called in the try
\* block and again in its catch
ConsoleExport ==
    LET filtered == FilterLogs(tx.logs, tx.minSeverity)
        printThrew == filtered # <<>> /\ ~tx.serializable
        first == IF printThrew THEN Result("FAILED", "PrintError")
                 ELSE Result("SUCCESS", "none")
    IN
    /\ tx.pc = "init"
    /\ tx.kind = "console"
    /\ tx' = [tx EXCEPT !.pc = "done",
                        !.results = CallbackThenCatch(first, tx.cbThrows),
                        !.exportThrew = tx.cbThrows]
    /\ UNCHANGED <<procVars, tracing, inv, otherVars>>

NextTransport ==
    \/ OtlpExport
    \/ \E status \in HttpStatuses : FetchSettles(status)
    \/ FetchRejects
    \/ SendThrew
    \/ ConsoleExport

SpecTransport == InitTransport /\ [][NextTransport]_vars

\* C6: once export(batch, callback) is over, the callback was invoked
\* exactly once and export did not throw.
C6_CallbackExactlyOnce ==
    tx.pc = "done" => Len(tx.results) = 1 /\ ~tx.exportThrew

\* C7 as stated: a SUCCESS result is only ever given after the HTTP POST
\* returned a 2xx status.
C7_SuccessOnly2xx ==
    (tx.pc = "done" /\ tx.kind = "otlp") =>
        \A k \in 1..Len(tx.results) :
            tx.results[k].code = "SUCCESS" =>
                tx.posted /\ tx.http \in 200..299

\* C7 amended: OTLPTransport gives SUCCESS only after a 2xx POST or, with
\* no POST made, when no record of the batch passes the severity filter;
\* a non-2xx status, a rejected fetch and a serialization exception are
\* each reported as FAILED, with the error attached, and never as SUCCESS.
C7_SuccessOnly2xxOrNothingToSend ==
    (tx.pc = "done" /\ tx.kind = "otlp") =>
        LET filtered == FilterLogs(tx.logs, tx.minSeverity) IN
        /\ \A k \in 1..Len(tx.results) :
              /\ tx.results[k].code = "SUCCESS" =>
                    \/ (filtered = <<>> /\ ~tx.posted)
                    \/ (tx.posted /\ tx.http \in 200..299)
              /\ tx.results[k].code = "FAILED" => tx.results[k].error # "none"
        /\ (filtered # <<>> /\ ~tx.serializable) =>
              tx.results = <<Result("FAILED", "SerializationError")>>
        /\ tx.fetchRejected =>
              tx.results = <<Result("FAILED", "NetworkError")>>
        /\ (tx.http \in HttpStatuses /\ tx.http \notin 200..299) =>
              tx.results = <<Result("FAILED", "OTLPExporterError")>>

\* C7 witness: a POST came back 404 and FAILED was reported with the error
C7_Witness ==
    /\ tx.pc = "done"
    /\ tx.kind = "otlp"
    /\ tx.posted
    /\ tx.http = 404
    /\ tx.results = <<Result("FAILED", "OTLPExporterError")>>

\* ---------------------------------------------------------- handler flow
MaxInv == 1           \* handler invocations
MaxHandlerEmit == 2   \* log records emitted by the handlers

\* what the user's fetch handler settles with: a Response, or a thrown value
\* (a plain Error, or an error object that carries a numeric status)
Returned == {"Response200", "Response500"}
Thrown == {"Error", "HttpError500"}
Outcomes == [kind : {"return"}, v : Returned] \cup [kind : {"throw"}, v : Thrown]
NoOutcome == [kind |-> "none", v |-> "none"]

\* value.status, NoStatus where the value has no such property
StatusOf(v) ==
    CASE v = "Response200" -> 200
      [] v = "Response500" -> 500
      [] v = "HttpError500" -> 500
      [] OTHER -> NoStatus

NewSpan == [status |-> "UNSET", exceptions |-> 0, ended |-> 0]

\* Span.setStatus / recordException / end: mutation after end is a no-op
SetStatus(span, code) ==
    IF span.ended > 0 THEN span ELSE [span EXCEPT !.status = code]

RecordException(span) ==
    IF span.ended > 0 THEN span ELSE [span EXCEPT !.exceptions = @ + 1]

EndSpan(span) == [span EXCEPT !.ended = @ + 1]

\* updateSpanNameOnRoute(span, request, result): fetchInstrumentation's
\* executionSucces and executionFailed alike; every value modelled is truthy
UpdateSpanNameOnRoute(span, result) ==
    IF StatusOf(result) # NoStatus /\ StatusOf(result) >= 400
    THEN SetStatus(span, "ERROR")
    ELSE SetStatus(span, "OK")

\* the body of the startActiveSpan callback after handlerFn settled, up to
\* span.end()
SpanAfterHandler(span, outcome) ==
    EndSpan(
        IF outcome.kind = "return"
        THEN UpdateSpanNameOnRoute(span, outcome.v)
        ELSE UpdateSpanNameOnRoute(
                 SetStatus(RecordException(span), "ERROR"), outcome.v))

InitHandler ==
    /\ InitProcessor
    /\ tx = IdleTx
    /\ tracing \in BOOLEAN
    /\ inv = NoInvocations
    /\ IdleOther

\* createHandlerProxy / createHandlerFlowFn up to `await handlerFn(...)`
Invoke ==
    /\ Len(inv) < MaxInv
    /\ inv' = Append(inv, [pc |-> "running", outcome |-> NoOutcome,
                           result |-> NoOutcome, span |-> NewSpan,
                           waitUntil |-> 0, et |-> "none", flush |-> 0,
                           background |-> "none", backgroundEmitted |-> {}])
    /\ UNCHANGED <<procVars, tx, tracing, otherVars>>

\* the running handler logs through getLogger(...): WorkerLogger.emit
HandlerEmit(i) ==
    /\ inv[i].pc = "running"
    /\ nEmitted < MaxHandlerEmit
    /\ EmitRecord
    /\ UNCHANGED <<tx, tracing, inv, otherVars>>

\* the running handler hands a promise of background work to the proxied
\* ctx.waitUntil, which tracks it
BackgroundStarts(i) ==
    /\ inv[i].pc = "running"
    /\ inv[i].background = "none"
    /\ inv' = [inv EXCEPT ![i].background = "pending"]
    /\ UNCHANGED <<procVars, tx, tracing, otherVars>>

\* the background work logs through getLogger(...): WorkerLogger.emit
BackgroundEmit(i) ==
    /\ inv[i].background = "pending"
    /\ nEmitted < MaxHandlerEmit
    /\ EmitRecord
    /\ inv' = [inv EXCEPT ![i].backgroundEmitted = @ \cup {nEmitted + 1}]
    /\ UNCHANGED <<tx, tracing, otherVars>>

\* the promise of the background work settles
BackgroundSettles(i) ==
    /\ inv[i].background = "pending"
    /\ inv' = [inv EXCEPT ![i].background = "settled"]
    /\ UNCHANGED <<procVars, tx, tracing, otherVars>>

\* The flow function's promise once its finally block has run: the promise
\* of exportTelemetry (state et) is passed to ctx.waitUntil and not awaited,
\* so the handler's outcome is what the caller gets, whatever et is.
FlowResultAwaitingExport(outcome, et) ==
    IF et \in {"resolved", "rejected"} THEN outcome ELSE NoOutcome

FlowResult(outcome, et) == outcome

\* handlerFn settles: try/catch/finally of the flow function, and
\* exportTelemetry up to its first await, handed to ctx.waitUntil. Without
\* a WorkerTracer exportTelemetry calls logger.forceFlush() at once.
HandlerSettles(i, outcome) ==
    /\ inv[i].pc = "running"
    /\ inv' = [inv EXCEPT
                 ![i].pc = "done",
                 ![i].outcome = outcome,
                 ![i].result = FlowResult(outcome,
                                  IF tracing THEN "wait1" ELSE "logFlush"),
                 ![i].span = SpanAfterHandler(inv[i].span, outcome),
                 ![i].waitUntil = @ + 1,
                 ![i].et = IF tracing THEN "wait1" ELSE "logFlush",
                 ![i].flush = IF tracing THEN 0 ELSE Len(flushes) + 1]
    /\ IF tracing THEN UNCHANGED procVars ELSE CallForceFlush
    /\ UNCHANGED <<tx, tracing, otherVars>>

\* exportTelemetry: await scheduler.wait(1)
ETWaited(i) ==
    /\ inv[i].et = "wait1"
    /\ inv' = [inv EXCEPT ![i].et = "tracker"]
    /\ UNCHANGED <<procVars, tx, tracing, otherVars>>

\* exportTelemetry: await tracker?.wait() is over, once every tracked
\* promise has settled
ETTrackerWaited(i) ==
    /\ inv[i].et = "tracker"
    /\ inv[i].background # "pending"
    /\ inv' = [inv EXCEPT ![i].et = "tracerFlush"]
    /\ UNCHANGED <<procVars, tx, tracing, otherVars>>

\* exportTelemetry: await tracer.forceFlush(traceId) is over, and
\* logger.forceFlush() is called
ETTracerFlushed(i) ==
    /\ inv[i].et = "tracerFlush"
    /\ inv' = [inv EXCEPT ![i].et = "logFlush", ![i].flush = Len(flushes) + 1]
    /\ CallForceFlush
    /\ UNCHANGED <<tx, tracing, otherVars>>

\* the promise of a processor's forceFlush()
FlushState(f) == IF flushes[f].st = "awaiting" THEN "pending" ELSE flushes[f].st

\* MultiTransportLogRecordProcessor.forceFlush over its processors
MultiForceFlushState(f) == PromiseAllSettled({FlushState(f)})

\* WorkerLogger.forceFlush over its processors
LoggerForceFlushState(f) == PromiseAllSettled({MultiForceFlushState(f)})

\* exportTelemetry: await logger.forceFlush() is over
ETLogFlushed(i) ==
    /\ inv[i].et = "logFlush"
    /\ LoggerForceFlushState(inv[i].flush) # "pending"
    /\ inv' = [inv EXCEPT ![i].et = LoggerForceFlushState(inv[i].flush)]
    /\ UNCHANGED <<procVars, tx, tracing, otherVars>>

NextHandler ==
    \/ Invoke
    \/ \E i \in 1..Len(inv) : HandlerEmit(i)
    \/ \E i \in 1..Len(inv), outcome \in Outcomes : HandlerSettles(i, outcome)
    \/ \E i \in 1..Len(inv) : ETWaited(i)
    \/ \E i \in 1..Len(inv) : ETTrackerWaited(i)
    \/ \E i \in 1..Len(inv) : ETTracerFlushed(i)
    \/ \E i \in 1..Len(inv) : ETLogFlushed(i)
    \/ \E f \in 1..Len(flushes) : ResumeForceFlush(f)
    \/ \E e \in 1..Len(exports) : TimerFires(e)
    \/ \E e \in 1..Len(exports), code \in ResultCodes : ExportCallback(e, code)

SpecHandler == InitHandler /\ [][NextHandler]_vars

\* one invocation whose handler may leave background work to ctx.waitUntil
NextBackground ==
    \/ NextHandler
    \/ \E i \in 1..Len(inv) : BackgroundStarts(i)
    \/ \E i \in 1..Len(inv) : BackgroundEmit(i)
    \/ \E i \in 1..Len(inv) : BackgroundSettles(i)

SpecBackground == InitHandler /\ [][NextBackground]_vars

\* C9: whatever the transports report, no forceFlush of the processor, of
\* the multi-transport processor or of the logger rejects, exportTelemetry
\* does not reject, and what the caller gets from the handler is what the
\* user handler returned or threw.
C9_ExportErrorsIsolated ==
    /\ \A f \in 1..Len(flushes) :
          /\ flushes[f].st # "rejected"
          /\ MultiForceFlushState(f) # "rejected"
          /\ LoggerForceFlushState(f) # "rejected"
    /\ \A i \in 1..Len(inv) :
          /\ inv[i].et # "rejected"
          /\ inv[i].pc = "done" => inv[i].result = inv[i].outcome

\* C9 witness: an export awaited by exportTelemetry FAILED, exportTelemetry
\* resolved, and the caller got the handler's own response
C9_Witness ==
    \E i \in 1..Len(inv) :
        /\ inv[i].et = "resolved"
        /\ inv[i].result = [kind |-> "return", v |-> "Response200"]
        /\ \E e \in flushes[inv[i].flush].snap : exports[e].st = "rejected"

\* C10: when the handler throws, the root span carries one exception event
\* and status ERROR, is ended exactly once, exportTelemetry was handed to
\* ctx.waitUntil, and the caller gets the same error.
C10_HandlerErrorRecorded ==
    \A i \in 1..Len(inv) :
        (inv[i].pc = "done" /\ inv[i].outcome.kind = "throw") =>
            /\ inv[i].span.exceptions = 1
            /\ inv[i].span.status = "ERROR"
            /\ inv[i].span.ended = 1
            /\ inv[i].waitUntil = 1
            /\ inv[i].et # "none"
            /\ inv[i].result = inv[i].outcome

\* ------------------------------------------------ configuration and init
MaxCalls == 2       \* handler proxy calls made in one isolate

\* what init and the handler proxy leave alone
nonIsolateVars ==
    <<procVars, tx, tracing, inv, traceVars, propagationVars, unitVars>>

\* type BatchStrategy
BatchStrategies == {"trace", "immediate", "size"}

\* what a supplied configuration may carry as batching.strategy: nothing
\* (the default of either parser applies) or a string that is no BatchStrategy
SuppliedStrategies == {"unset", "bogus"}

\* The supplied WorkerOtelConfig: trace is absent, an exporter configuration
\* or a span processor configuration; logs is absent, without transports or
\* with transports.
SuppliedConfigs ==
    {s \in [trace : {"none", "exporter", "processors"},
            traceStrategy : SuppliedStrategies,
            logs : {"none", "noTransports", "transports"},
            logsStrategy : SuppliedStrategies,
            instrumentConsole : BOOLEAN] :
        /\ s.trace = "none" => s.traceStrategy = "unset"
        /\ s.logs = "none" => s.logsStrategy = "unset"
        /\ s.logs # "transports" => ~s.instrumentConsole}

\* the span processor instance a span processor configuration carries
UserSpanProcessor == [kind |-> "span", of |-> 0]

NoTraceConfig == [present |-> FALSE, spanProcessors |-> {}, strategy |-> "none"]

NoLogsConfig ==
    [present |-> FALSE, processors |-> {}, instrumentConsole |-> FALSE]

\* parseTraceConfig in call c: an exporter configuration gets a new
\* BatchTraceSpanProcessor, and batching.strategy is copied as supplied
ParseTraceConfig(supplied, c) ==
    [present |-> TRUE,
     spanProcessors |-> IF supplied.trace = "exporter"
                        THEN {[kind |-> "span", of |-> c]}
                        ELSE {UserSpanProcessor},
     strategy |-> IF supplied.traceStrategy = "unset" THEN "trace"
                  ELSE supplied.traceStrategy]

\* createLogProcessor: config?.strategy ?? 'size', and the default branch
\* of its switch
CreateLogProcessorThrows(strategy) ==
    (IF strategy = "unset" THEN "size" ELSE strategy) \notin {"immediate", "size"}

\* parseLogsConfig in call c: a new MultiTransportLogRecordProcessor, with
\* one createLogProcessor per transport, only when there are transports
ParseLogsConfigThrows(supplied) ==
    supplied.logs = "transports" /\ CreateLogProcessorThrows(supplied.logsStrategy)

ParseLogsConfig(supplied, c) ==
    [present |-> TRUE,
     processors |-> IF supplied.logs = "transports"
                    THEN {[kind |-> "log", of |-> c]} ELSE {},
     instrumentConsole |-> supplied.instrumentConsole]

\* parseConfig in call c
ParseConfig(supplied, c) ==
    [threw |-> supplied.logs # "none" /\ ParseLogsConfigThrows(supplied),
     trace |-> IF supplied.trace # "none" THEN ParseTraceConfig(supplied, c)
               ELSE NoTraceConfig,
     logs  |-> IF supplied.logs # "none" /\ ~ParseLogsConfigThrows(supplied)
               THEN ParseLogsConfig(supplied, c) ELSE NoLogsConfig]

\* init(): what is registered when it runs with !initialised. The
\* propagator of call c, config.propagator || new W3CTraceContextPropagator(),
\* is named by c.
InitProviders(conf, c) ==
    [tracer |-> conf.trace.present,
     spanProcessors |-> conf.trace.spanProcessors,
     logger |-> conf.logs.present /\ conf.logs.processors # {},
     logProcessors |-> conf.logs.processors,
     console |-> /\ conf.logs.present /\ conf.logs.processors # {}
                 /\ conf.logs.instrumentConsole,
     propagator |-> c]

\* an init() that registers whenever it is called
InitOnEveryCall(was, registered, conf, c) == InitProviders(conf, c)

\* init(conf, service, propagator) of call c: if (!initialised) { ... }
InitOnce(was, registered, conf, c) ==
    IF was THEN registered ELSE InitProviders(conf, c)

\* a flag the flow function leaves as it is
ColdStartKept(flag) == flag

\* the flow function after it read the flag: cold_start = false
ColdStartAfter(flag) == FALSE

\* a configuration written into the given Context object itself
SetConfigInPlace(store, conf, c, ctx) ==
    [store |-> [store EXCEPT ![ctx] =
                   [trace |-> IF conf.trace.present THEN c ELSE @.trace,
                    logs  |-> IF conf.logs.present THEN c ELSE @.logs]],
     ctx   |-> ctx]

\* setConfig(config, ctx): Context.setValue gives a new Context; the
\* ResolvedTraceConfig / ResolvedLogsConfig object of call c is named by c
SetConfig(store, conf, c, ctx) ==
    IF ~conf.trace.present /\ ~conf.logs.present
    THEN [store |-> store, ctx |-> ctx]
    ELSE [store |-> Append(store,
                       [trace |-> IF conf.trace.present THEN c
                                  ELSE store[ctx].trace,
                        logs  |-> IF conf.logs.present THEN c
                                  ELSE store[ctx].logs]),
          ctx   |-> Len(store) + 1]

\* getActiveConfig() / getActiveLogsConfig() with ctx active
GetActiveConfig(store, ctx) == store[ctx].trace

GetActiveLogsConfig(store, ctx) == store[ctx].logs

\* context.active() in a continuation of call c: the Context that
\* api_context.with made active for the flow function
ActiveContext(c) == calls[c].ctx

\* The handler proxy: initialiser(env, trigger), that is parseConfig and
\* init, then setConfig and api_context.with(context, flowFn, ...), where
\* the flow function gives the root span faas.coldstart = cold_start and
\* clears the flag before its first await. A throw of parseConfig leaves
\* the proxy before init and before the flow function.
CallHandler(supplied) ==
    LET c == Len(calls) + 1
        conf == ParseConfig(supplied, c)
        set == SetConfig(contexts, conf, c, RootContext)
        call == [supplied |-> supplied, conf |-> conf, pc |-> "flow",
                 coldstart |-> cold_start,
                 ctx |-> RootContext, read |-> FALSE, obsTrace |-> 0,
                 obsLogs |-> 0, emitted |-> FALSE, received |-> {}]
    IN
    /\ Len(calls) < MaxCalls
    /\ IF conf.threw
       THEN /\ calls' = Append(calls, [call EXCEPT !.pc = "threw"])
            /\ UNCHANGED <<initialised, cold_start, provider, contexts>>
       ELSE /\ initialised' = TRUE
            /\ provider' = InitOnce(initialised, provider, conf, c)
            /\ cold_start' = ColdStartAfter(cold_start)
            /\ contexts' = set.store
            /\ calls' = Append(calls, [call EXCEPT !.ctx = set.ctx])
    /\ UNCHANGED nonIsolateVars

\* a continuation of call c asks for the active configuration
ReadActiveConfig(c) ==
    /\ calls[c].pc = "flow"
    /\ ~calls[c].read
    /\ calls' = [calls EXCEPT
                   ![c].read = TRUE,
                   ![c].obsTrace = GetActiveConfig(contexts, ActiveContext(c)),
                   ![c].obsLogs = GetActiveLogsConfig(contexts, ActiveContext(c))]
    /\ UNCHANGED <<initialised, cold_start, provider, contexts, nonIsolateVars>>

\* getLogger(name): the processors of the logger the global provider gives
LoggerProcessors == IF provider.logger THEN provider.logProcessors ELSE {}

\* a continuation of call c emits a log record: WorkerLogger.emit hands it
\* to every processor of the logger
EmitLog(c) ==
    /\ calls[c].pc = "flow"
    /\ ~calls[c].emitted
    /\ calls' = [calls EXCEPT ![c].emitted = TRUE,
                              ![c].received = LoggerProcessors]
    /\ UNCHANGED <<initialised, cold_start, provider, contexts, nonIsolateVars>>

NextIsolate ==
    \/ \E supplied \in SuppliedConfigs : CallHandler(supplied)
    \/ \E c \in 1..Len(calls) : ReadActiveConfig(c)
    \/ \E c \in 1..Len(calls) : EmitLog(c)

InitIsolated ==
    /\ config = [strategy |-> "immediate", maxQueueSize |-> 1,
                 maxExportBatchSize |-> 1]
    /\ logRecords = <<>>
    /\ exportPromises = <<>>
    /\ exports = <<>>
    /\ flushes = <<>>
    /\ nEmitted = 0
    /\ tx = IdleTx
    /\ tracing = FALSE
    /\ inv = NoInvocations
    /\ InitIsolate
    /\ IdleTrace
    /\ IdlePropagation
    /\ IdleUnits

SpecIsolate == InitIsolated /\ [][NextIsolate]_vars

\* ------------------------------------------------ traces and tail sampling
MaxSpans == 3       \* spans started in all
MaxBuckets == 2     \* trace buckets the span processor creates

TraceIds == {1, 2}

\* ratio of the head sampler: nothing or everything is head-sampled
HeadRatios == {0, 1}

\* the status a root span is ended with
EndStatuses == {"OK", "ERROR"}

\* what the span processor and the samplers leave alone
nonTraceVars ==
    <<procVars, tx, tracing, inv, isolateVars, propagationVars, unitVars>>

\* createSampler({ ratio }): the head decision of every span of a trace
HeadSampled(r) == r = 1

\* tail predicate isHeadSampled
IsHeadSampled(bucket, r) == HeadSampled(r)

\* tail predicate isRootErrorSpan
IsRootErrorSpan(bucket, r) == bucket.rootStatus = "ERROR"

\* multiTailSampler(samplers): the predicates joined by OR
MultiTailSampler(results) == TRUE \in results

\* a tail sampler made of isHeadSampled only
TailSamplerHeadOnly(bucket, r) == MultiTailSampler({IsHeadSampled(bucket, r)})

\* sampling.tailSampler default:
\* multiTailSampler([isHeadSampled, isRootErrorSpan])
DefaultTailSampler(bucket, r) ==
    MultiTailSampler({IsHeadSampled(bucket, r), IsRootErrorSpan(bucket, r)})

HasRoot(bucket) == \E k \in 1..Len(bucket.spans) : bucket.spans[k].root

OpenSpans(bucket) == {k \in 1..Len(bucket.spans) : bucket.spans[k].st = "open"}

\* completion on the end of the root span alone
IsCompleteOnRootEnd(bucket) ==
    \E k \in 1..Len(bucket.spans) :
        bucket.spans[k].root /\ bucket.spans[k].st # "open"

\* completion rule: the root has ended and every registered span has ended
IsComplete(bucket) ==
    /\ \E k \in 1..Len(bucket.spans) :
          bucket.spans[k].root /\ bucket.spans[k].st # "open"
    /\ OpenSpans(bucket) = {}

\* the last bucket of a trace whatever its state
LastBucket(t) ==
    IF \E b \in 1..Len(buckets) : buckets[b].traceId = t
    THEN CHOOSE b \in 1..Len(buckets) :
             /\ buckets[b].traceId = t
             /\ \A d \in 1..Len(buckets) : buckets[d].traceId = t => d <= b
    ELSE 0

\* the bucket of a trace that was not handed off yet, 0 when there is none
OpenBucket(t) ==
    IF \E b \in 1..Len(buckets) :
           buckets[b].traceId = t /\ buckets[b].state # "COMPLETE"
    THEN CHOOSE b \in 1..Len(buckets) :
             buckets[b].traceId = t /\ buckets[b].state # "COMPLETE"
    ELSE 0

NewBucket(t, root) ==
    [traceId |-> t, spans |-> <<[root |-> root, st |-> "open"]>>,
     state |-> "OPEN", rootStatus |-> "NONE", openAtRootEnd |-> 0,
     decisions |-> 0, tail |-> FALSE]

\* the hand-off of a bucket: the tail sampler decides
Completed(bucket) ==
    [bucket EXCEPT !.state = "COMPLETE",
                   !.decisions = @ + 1,
                   !.tail = DefaultTailSampler(bucket, ratio)]

\* trace strategy: the whole span set of an accepted trace is one export
\* call; a rejected trace is dropped
ExportsAfter(b, bucket) ==
    IF bucket.tail
    THEN Append(spanExports,
                [bucket |-> b, traceId |-> bucket.traceId,
                 n |-> Len(bucket.spans)])
    ELSE spanExports

\* the bucket after one of its steps, handed off when the step completes it
Settle(b, bucket) ==
    IF IsComplete(bucket)
    THEN /\ buckets' = [buckets EXCEPT ![b] = Completed(bucket)]
         /\ spanExports' = ExportsAfter(b, Completed(bucket))
    ELSE /\ buckets' = [buckets EXCEPT ![b] = bucket]
         /\ UNCHANGED spanExports

\* the spans started so far
SpansStarted ==
    Cardinality({p \in (1..Len(buckets)) \X (1..MaxSpans) :
                    p[2] <= Len(buckets[p[1]].spans)})

\* onSpanStart: create or fetch the bucket of the trace and register the
\* span; the first span of a trace is its root
SpanStart(t, root) ==
    LET b == OpenBucket(t) IN
    /\ SpansStarted < MaxSpans
    /\ IF b = 0
       THEN /\ Len(buckets) < MaxBuckets
            /\ LastBucket(t) = 0 => root
            /\ buckets' = Append(buckets, NewBucket(t, root))
       ELSE /\ ~root
            /\ buckets' = [buckets EXCEPT
                             ![b].spans = Append(@, [root |-> FALSE,
                                                    st |-> "open"])]
    /\ UNCHANGED <<ratio, spanExports, nonTraceVars>>

\* onSpanEnd: the span is ended; the end of the root moves the bucket to
\* COMPLETING
SpanEnd(b, k, status) ==
    LET bk == buckets[b]
        ended == [bk EXCEPT !.spans[k].st = "ended"]
        after == IF bk.spans[k].root
                 THEN [ended EXCEPT !.state = "COMPLETING",
                                    !.rootStatus = status,
                                    !.openAtRootEnd = Cardinality(OpenSpans(ended))]
                 ELSE ended
    IN
    /\ bk.state # "COMPLETE"
    /\ bk.spans[k].st = "open"
    /\ Settle(b, after)
    /\ UNCHANGED <<ratio, nonTraceVars>>

\* exportTelemetry: tracer.forceFlush(traceId), that is forceComplete: the
\* spans still open are ended as truncated and the bucket is handed off
ForceComplete(t) ==
    LET b == OpenBucket(t) IN
    /\ b # 0
    /\ LET truncated ==
             [buckets[b] EXCEPT
                !.spans = [k \in 1..Len(@) |->
                              IF @[k].st = "open"
                              THEN [@[k] EXCEPT !.st = "truncated"]
                              ELSE @[k]]]
       IN
       /\ buckets' = [buckets EXCEPT ![b] = Completed(truncated)]
       /\ spanExports' = ExportsAfter(b, Completed(truncated))
    /\ UNCHANGED <<ratio, nonTraceVars>>

NextTrace ==
    \/ \E t \in TraceIds, root \in BOOLEAN : SpanStart(t, root)
    \/ \E b \in 1..Len(buckets) :
          \E k \in 1..Len(buckets[b].spans), status \in EndStatuses :
              SpanEnd(b, k, status)
    \/ \E t \in TraceIds : ForceComplete(t)

InitTrace ==
    /\ config = [strategy |-> "immediate", maxQueueSize |-> 1,
                 maxExportBatchSize |-> 1]
    /\ logRecords = <<>>
    /\ exportPromises = <<>>
    /\ exports = <<>>
    /\ flushes = <<>>
    /\ nEmitted = 0
    /\ tx = IdleTx
    /\ tracing = FALSE
    /\ inv = NoInvocations
    /\ InitIsolate
    /\ IdlePropagation
    /\ IdleUnits
    /\ ratio \in HeadRatios
    /\ buckets = <<>>
    /\ spanExports = <<>>

SpecTrace == InitTrace /\ [][NextTrace]_vars

\* the export calls made for bucket b
ExportsOf(b) == {e \in 1..Len(spanExports) : spanExports[e].bucket = b}

\* the buckets a trace had
BucketsOf(t) == {b \in 1..Len(buckets) : buckets[b].traceId = t}

\* ------------------------------------------------ trace context propagation
MaxArgs == 2        \* arguments of the RPC call

\* what the propagation steps leave alone
nonPropagationVars ==
    <<procVars, tx, tracing, inv, isolateVars, traceVars, unitVars>>

\* the log pipeline and the handler flow at rest
IdlePipeline ==
    /\ config = [strategy |-> "immediate", maxQueueSize |-> 1,
                 maxExportBatchSize |-> 1]
    /\ logRecords = <<>>
    /\ exportPromises = <<>>
    /\ exports = <<>>
    /\ flushes = <<>>
    /\ nEmitted = 0
    /\ tx = IdleTx
    /\ tracing = FALSE
    /\ inv = NoInvocations

\* A Context is modelled by the span context it carries; this is the one of
\* a Context without a span (INVALID_SPAN_CONTEXT, all-zero ids)
NoSpanContext == [traceId |-> 0, spanId |-> 0, traceFlags |-> 0, isRemote |-> FALSE]

IsSpanContextValid(sc) == sc.traceId # 0 /\ sc.spanId # 0

\* no traceparent header
NoTraceparent == <<>>

\* propagation.inject with the W3C propagator: traceparent is
\* version-traceId-spanId-flags, written only for a valid span context
Inject(sc) ==
    IF IsSpanContextValid(sc)
    THEN <<0, sc.traceId, sc.spanId, sc.traceFlags>>
    ELSE NoTraceparent

\* propagation.extract(active, headers) with the W3C propagator: a
\* well-formed traceparent gives a Context with a remote span context, and
\* anything else gives the Context it was called with
Extract(active, traceparent) ==
    IF /\ Len(traceparent) = 4
       /\ traceparent[1] = 0
       /\ traceparent[2] # 0
       /\ traceparent[3] # 0
    THEN [traceId |-> traceparent[2], spanId |-> traceparent[3],
          traceFlags |-> traceparent[4], isRemote |-> TRUE]
    ELSE active

\* the span context of a span started with the given parent Context: it
\* joins the parent's trace, or starts a trace of its own
ChildSpanContext(parent, spanId, newTraceId, sampled) ==
    [traceId |-> IF IsSpanContextValid(parent) THEN parent.traceId ELSE newTraceId,
     spanId |-> spanId,
     traceFlags |-> IF IsSpanContextValid(parent) THEN parent.traceFlags
                    ELSE IF sampled THEN 1 ELSE 0,
     isRemote |-> FALSE]

\* ids the tracer gives the client span, the server span, and their traces
\* when they have no parent
ClientSpanId == 7

ServerSpanId == 8

ClientTraceId == 5

ServerTraceId == 6

\* the span contexts a Context at the caller may carry
LocalSpanContexts ==
    {NoSpanContext} \cup
    {[traceId |-> 4, spanId |-> 4, traceFlags |-> f, isRemote |-> FALSE] :
        f \in {0, 1}}

\* Arguments of an RPC call: plain values, and a value of the caller's that
\* has the marker property of a carrier
PlainArgs == {[marker |-> FALSE, headers |-> NoTraceparent, v |-> n] : n \in 1..2}

UserCarrierLike == [marker |-> TRUE, headers |-> <<0, 9, 9, 1>>, v |-> 0]

ArgValues == PlainArgs \cup {UserCarrierLike}

\* isRpcContextCarrier
IsRpcContextCarrier(a) == a.marker

\* injectRpcContext(ctx)
InjectRpcContext(ctx) == [marker |-> TRUE, headers |-> Inject(ctx), v |-> 0]

\* extractRpcContext(carrier)
ExtractRpcContext(carrier, active) == Extract(active, carrier.headers)

RECURSIVE DropCarriers(_)
\* the arguments without any leading carrier
DropCarriers(args) ==
    IF Len(args) > 0 /\ IsRpcContextCarrier(args[1])
    THEN DropCarriers(Tail(args))
    ELSE args

\* a removal of every leading argument that is a carrier
ExtractAndRemoveEveryCarrier(args, active) ==
    IF Len(args) > 0 /\ IsRpcContextCarrier(args[1])
    THEN [found |-> TRUE, ctx |-> ExtractRpcContext(args[1], active),
          args |-> DropCarriers(args)]
    ELSE [found |-> FALSE, ctx |-> active, args |-> args]

\* extractAndRemoveRpcContext(args), and `extractedContext ||
\* api_context.active()` of the handler
ExtractAndRemoveRpcContext(args, active) ==
    IF Len(args) > 0 /\ IsRpcContextCarrier(args[1])
    THEN [found |-> TRUE, ctx |-> ExtractRpcContext(args[1], active),
          args |-> Tail(args)]
    ELSE [found |-> FALSE, ctx |-> active, args |-> args]

InitRpc ==
    /\ IdlePipeline
    /\ InitIsolate
    /\ IdleTrace
    /\ IdleUnits
    /\ req = [pc |-> "none"]
    /\ \E args \in SeqsUpTo(ArgValues, MaxArgs), active \in LocalSpanContexts,
          sampled \in BOOLEAN :
          rpc = [pc |-> "caller", args |-> args, active |-> active,
                 sampled |-> sampled, clientSpan |-> NoSpanContext,
                 wire |-> <<>>, delivered |-> <<>>,
                 serverParent |-> NoSpanContext, serverSpan |-> NoSpanContext]

\* instrumentRpcMethod: the client span is started and made active, the
\* carrier of the active Context is put in front of the arguments, and the
\* stub's method is applied
RpcClientCall ==
    LET span == ChildSpanContext(rpc.active, ClientSpanId, ClientTraceId,
                                 rpc.sampled)
    IN
    /\ rpc.pc = "caller"
    /\ rpc' = [rpc EXCEPT !.pc = "sent",
                          !.clientSpan = span,
                          !.wire = <<InjectRpcContext(span)>> \o rpc.args]
    /\ UNCHANGED <<req, nonPropagationVars>>

\* instrumentRpcHandlerMethod: the carrier is taken off the arguments, the
\* server span is started under the extracted Context, and the target
\* method is applied to the cleaned arguments
RpcServerHandle ==
    LET ex == ExtractAndRemoveRpcContext(rpc.wire, NoSpanContext) IN
    /\ rpc.pc = "sent"
    /\ rpc' = [rpc EXCEPT !.pc = "served",
                          !.serverParent = ex.ctx,
                          !.serverSpan = ChildSpanContext(ex.ctx, ServerSpanId,
                                                          ServerTraceId, rpc.sampled),
                          !.delivered = ex.args]
    /\ UNCHANGED <<req, nonPropagationVars>>

NextRpc == RpcClientCall \/ RpcServerHandle

SpecRpc == InitRpc /\ [][NextRpc]_vars

\* what handlers.fetch.acceptTraceContext is supplied as: nothing, a
\* boolean, or a function with its result for the request
AcceptSettings == {"unset", "true", "false", "fnTrue", "fnFalse"}

\* parseTraceConfig: supplied.handlers?.fetch?.acceptTraceContext ?? true
ResolveAcceptTraceContext(supplied) ==
    IF supplied = "unset" THEN "true" ELSE supplied

\* the traceparent headers a request may carry
RequestTraceparents ==
    {NoTraceparent, <<0, 0, 0, 0>>} \cup
    {<<0, t, 3, f>> : t \in {1, 2}, f \in {0, 1}}

\* getParentContextFromHeaders(request.headers)
GetParentContextFromHeaders(traceparent, active) == Extract(active, traceparent)

\* a parent taken from the headers whatever the setting
GetParentContextIgnoringSetting(hasConfig, accept, traceparent, active) ==
    GetParentContextFromHeaders(traceparent, active)

\* getParentContextFromRequest(request): without an active trace
\* configuration the active Context; otherwise the setting, called when it
\* is a function, decides between the headers and the active Context
GetParentContextFromRequest(hasConfig, accept, traceparent, active) ==
    IF ~hasConfig
    THEN active
    ELSE IF accept \in {"true", "fnTrue"}
         THEN GetParentContextFromHeaders(traceparent, active)
         ELSE active

InitFetchParent ==
    /\ IdlePipeline
    /\ InitIsolate
    /\ IdleTrace
    /\ IdleUnits
    /\ rpc = [pc |-> "none"]
    /\ \E hasTrace \in BOOLEAN, accept \in AcceptSettings,
          traceparent \in RequestTraceparents, active \in LocalSpanContexts :
          req = [pc |-> "received", hasTrace |-> hasTrace, accept |-> accept,
                 traceparent |-> traceparent, active |-> active,
                 parent |-> NoSpanContext, span |-> NoSpanContext]

\* fetchInstrumentation.getInitialSpanInfo and the start of the root span in
\* the flow function, under `spanContext || api_context.active()`
StartRootSpan(sampled) ==
    LET parent == GetParentContextFromRequest(
                      req.hasTrace, ResolveAcceptTraceContext(req.accept),
                      req.traceparent, req.active)
    IN
    /\ req.pc = "received"
    /\ req' = [req EXCEPT !.pc = "started",
                          !.parent = parent,
                          !.span = ChildSpanContext(parent, ServerSpanId,
                                                    ServerTraceId, sampled)]
    /\ UNCHANGED <<rpc, nonPropagationVars>>

NextFetchParent == \E sampled \in BOOLEAN : StartRootSpan(sampled)

SpecFetchParent == InitFetchParent /\ [][NextFetchParent]_vars

\* ------------------------------------------------ outbound fetch
\* what the steps of one single operation leave alone
nonUnitVars ==
    <<procVars, tx, tracing, inv, isolateVars, traceVars, propagationVars>>

\* what fetch.includeTraceContext is supplied as: nothing, a boolean, or a
\* function with its result for the request
IncludeSettings == {"unset", "true", "false", "fnTrue", "fnFalse"}

\* the instrumented fetch functions: globalThis.fetch, and the fetch of a
\* Durable Object stub
FetchFunctions == {"global", "doStub"}

\* parseTraceConfig: supplied.fetch?.includeTraceContext ?? true
ResolveIncludeTraceContext(supplied) ==
    IF supplied = "unset" THEN "true" ELSE supplied

\* a configFn that gives every fetch function the active configuration
FetcherConfigFromConfig(via, resolved) == resolved

\* configFn(workerConfig): instrumentGlobalFetch passes (config) =>
\* config.fetch, instrumentBindingStub passes
\* () => ({ includeTraceContext: true })
FetcherConfig(via, resolved) ==
    IF via = "doStub" THEN "true" ELSE resolved

\* typeof config.includeTraceContext === 'function' ?
\* config.includeTraceContext(request) : config.includeTraceContext, and
\* `?? true` on the result
IncludeTraceContext(setting) == setting \in {"true", "fnTrue"}

InitOutbound ==
    /\ IdlePipeline
    /\ InitIsolate
    /\ IdleTrace
    /\ IdlePropagation
    /\ rec = [pc |-> "none"]
    /\ lg = [pc |-> "none"]
    /\ entry = [pc |-> "none"]
    /\ con = [pc |-> "none"]
    /\ \E via \in FetchFunctions, http \in BOOLEAN, hasConfig \in BOOLEAN,
          include \in IncludeSettings, active \in LocalSpanContexts :
          out = [pc |-> "calling", via |-> via, http |-> http,
                 hasConfig |-> hasConfig, include |-> include,
                 active |-> active, span |-> NoSpanContext,
                 traceparent |-> NoTraceparent]

\* instrumentClientFetch, handler.apply up to the call of the target: a URL
\* that does not start with http, or no active configuration, passes the
\* call on; otherwise the client span is started and made active and
\* propagation.inject writes the headers when the setting allows it
OutboundFetch(sampled) ==
    LET span == ChildSpanContext(out.active, ClientSpanId, ClientTraceId, sampled)
        setting == FetcherConfig(out.via, ResolveIncludeTraceContext(out.include))
    IN
    /\ out.pc = "calling"
    /\ IF ~out.http \/ ~out.hasConfig
       THEN out' = [out EXCEPT !.pc = "passed"]
       ELSE out' = [out EXCEPT
                      !.pc = "sent",
                      !.span = span,
                      !.traceparent = IF IncludeTraceContext(setting)
                                      THEN Inject(span) ELSE NoTraceparent]
    /\ UNCHANGED <<nonUnitVars, rec, lg, entry, con>>

NextOutbound == \E sampled \in BOOLEAN : OutboundFetch(sampled)

SpecOutbound == InitOutbound /\ [][NextOutbound]_vars

\* ------------------------------------------------ log records
\* the log pipeline, the isolate, the traces and the propagation at rest
IdleProgram ==
    /\ IdlePipeline
    /\ InitIsolate
    /\ IdleTrace
    /\ IdlePropagation

\* a field of LogRecordInit that was not supplied
Undefined == -1

\* the span contexts trace.getActiveSpan() may give
ActiveSpanContexts ==
    {[traceId |-> t, spanId |-> 4, traceFlags |-> f, isRemote |-> FALSE] :
        t \in {4, 5}, f \in {0, 1}}

\* traceId, spanId and traceFlags of a LogRecordInit
InitTraceContexts ==
    [traceId : {Undefined, 9}, spanId : {Undefined, 9},
     traceFlags : {Undefined, 0, 1}]

\* every field taken from the caller when supplied and from the span
\* otherwise
TraceContextPerField(hasActive, span, init) ==
    [traceId |-> IF hasActive /\ init.traceId = Undefined
                 THEN span.traceId ELSE init.traceId,
     spanId |-> IF hasActive /\ init.spanId = Undefined
                THEN span.spanId ELSE init.spanId,
     traceFlags |-> IF hasActive /\ init.traceFlags = Undefined
                    THEN span.traceFlags ELSE init.traceFlags]

\* LogRecordImpl.constructor: traceId, spanId and traceFlags of the record
TraceContextOfRecord(hasActive, span, init) ==
    IF hasActive /\ init.traceId = Undefined
    THEN [traceId |-> span.traceId, spanId |-> span.spanId,
          traceFlags |-> span.traceFlags]
    ELSE [traceId |-> init.traceId, spanId |-> init.spanId,
          traceFlags |-> init.traceFlags]

InitRecord ==
    /\ IdleProgram
    /\ out = [pc |-> "none"]
    /\ lg = [pc |-> "none"]
    /\ entry = [pc |-> "none"]
    /\ con = [pc |-> "none"]
    /\ \E hasActive \in BOOLEAN, span \in ActiveSpanContexts,
          init \in InitTraceContexts :
          rec = [pc |-> "init", hasActive |-> hasActive, span |-> span,
                 init |-> init, made |-> init]

\* new LogRecordImpl(init)
NewLogRecord ==
    /\ rec.pc = "init"
    /\ rec' = [rec EXCEPT !.pc = "made",
                          !.made = TraceContextOfRecord(rec.hasActive, rec.span,
                                                        rec.init)]
    /\ UNCHANGED <<nonUnitVars, out, lg, entry, con>>

NextRecord == NewLogRecord

SpecRecord == InitRecord /\ [][NextRecord]_vars

\* ------------------------------------------------ child loggers
MaxLoggers == 3     \* loggers in the chain, the provider's logger included

AttributeKeys == {"a", "b"}

\* a key an attribute object does not have
Absent == 0

\* a value sanitizeAttributes does not keep (an object, say)
InvalidValue == 3

\* the attribute objects passed to child() and to emit()
AttributeObjects == [AttributeKeys -> {Absent, 1, 2}]

EmitAttributeObjects == [AttributeKeys -> {Absent, 2, InvalidValue}]

NoAttributes == [k \in AttributeKeys |-> Absent]

\* { ...a, ...b }
Spread(a, b) == [k \in AttributeKeys |-> IF b[k] # Absent THEN b[k] ELSE a[k]]

\* sanitizeAttributes: the keys with a valid attribute value
SanitizeAttributes(m) ==
    [k \in AttributeKeys |-> IF m[k] = InvalidValue THEN Absent ELSE m[k]]

\* attributes merged with the logger's own taking precedence
MergedAttributesLoggerWins(inherited, attributes) == Spread(attributes, inherited)

\* WorkerLogger.emit: { ...this.inheritedAttributes,
\* ...(logRecord.attributes || {}) }
MergedAttributes(inherited, attributes) == Spread(inherited, attributes)

\* the logger getLogger() gives: no inherited attributes
ProviderLogger == [parent |-> 0, given |-> NoAttributes, inherited |-> NoAttributes]

InitLoggers ==
    /\ IdleProgram
    /\ out = [pc |-> "none"]
    /\ rec = [pc |-> "none"]
    /\ entry = [pc |-> "none"]
    /\ con = [pc |-> "none"]
    /\ lg = [pc |-> "ready", loggers |-> <<ProviderLogger>>,
             emitted |-> FALSE, logger |-> 0, attributes |-> NoAttributes,
             made |-> NoAttributes]

\* WorkerLogger.child(attributes) on logger p: a new logger with
\* { ...this.inheritedAttributes, ...attributes }
Child(p, attributes) ==
    /\ Len(lg.loggers) < MaxLoggers
    /\ lg' = [lg EXCEPT
                !.loggers = Append(@, [parent |-> p, given |-> attributes,
                                       inherited |-> Spread(lg.loggers[p].inherited,
                                                            attributes)])]
    /\ UNCHANGED <<nonUnitVars, out, rec, entry, con>>

\* WorkerLogger.emit on logger l, and the attributes of the LogRecordImpl
EmitWith(l, attributes) ==
    /\ lg' = [lg EXCEPT
                !.emitted = TRUE,
                !.logger = l,
                !.attributes = attributes,
                !.made = SanitizeAttributes(
                             MergedAttributes(lg.loggers[l].inherited, attributes))]
    /\ UNCHANGED <<nonUnitVars, out, rec, entry, con>>

NextLoggers ==
    \/ \E p \in 1..Len(lg.loggers), attributes \in AttributeObjects :
          Child(p, attributes)
    \/ \E l \in 1..Len(lg.loggers), attributes \in EmitAttributeObjects :
          EmitWith(l, attributes)

SpecLoggers == InitLoggers /\ [][NextLoggers]_vars

RECURSIVE MostSpecific(_, _)
\* the value of key k from the nearest logger of the chain of l that was
\* given it
MostSpecific(l, k) ==
    IF l = 0 THEN Absent
    ELSE IF lg.loggers[l].given[k] # Absent THEN lg.loggers[l].given[k]
    ELSE MostSpecific(lg.loggers[l].parent, k)

\* ------------------------------------------------ instrumented entry points
WorkerEntryPoints == {"fetch", "scheduled", "queue", "email"}

DOEntryPoints == {"doFetch", "doAlarm", "doRpc"}

EntryPoints == WorkerEntryPoints \cup DOEntryPoints

EntryOutcomes == {"return", "throw"}

InitEntry ==
    /\ IdleProgram
    /\ out = [pc |-> "none"]
    /\ rec = [pc |-> "none"]
    /\ lg = [pc |-> "none"]
    /\ con = [pc |-> "none"]
    /\ entry \in [pc : {"running"}, kind : EntryPoints, tracing : BOOLEAN,
                  outcome : {"none"}, spanEnded : {0}, emitted : {0},
                  waitUntil : {0}, et : {"none"}, flushed : {0}]

\* the running handler logs through getLogger(...)
EntryEmit ==
    /\ entry.pc = "running"
    /\ entry.emitted < MaxHandlerEmit
    /\ entry' = [entry EXCEPT !.emitted = @ + 1]
    /\ UNCHANGED <<nonUnitVars, out, rec, lg, con>>

\* The user's handler settles. A worker handler runs in the flow function
\* of createHandlerFlowFn, whose finally block ends the span and hands
\* exportTelemetry to ctx.waitUntil; executeDOFetch, executeDOAlarm and the
\* RPC handler method end the span and return.
EntrySettles(outcome) ==
    /\ entry.pc = "running"
    /\ entry' = [entry EXCEPT
                   !.pc = "done",
                   !.outcome = outcome,
                   !.spanEnded = @ + 1,
                   !.waitUntil = IF entry.kind \in WorkerEntryPoints THEN 1 ELSE 0,
                   !.et = IF entry.kind \in WorkerEntryPoints
                          THEN (IF entry.tracing THEN "tracerFlush" ELSE "logFlush")
                          ELSE "none",
                   !.flushed = IF entry.kind \in WorkerEntryPoints /\ ~entry.tracing
                               THEN entry.emitted ELSE 0]
    /\ UNCHANGED <<nonUnitVars, out, rec, lg, con>>

\* exportTelemetry after the waits and tracer.forceFlush(traceId):
\* logger.forceFlush()
EntryTracerFlushed ==
    /\ entry.et = "tracerFlush"
    /\ entry' = [entry EXCEPT !.et = "logFlush", !.flushed = entry.emitted]
    /\ UNCHANGED <<nonUnitVars, out, rec, lg, con>>

\* exportTelemetry resolves
EntryLogFlushed ==
    /\ entry.et = "logFlush"
    /\ entry' = [entry EXCEPT !.et = "resolved"]
    /\ UNCHANGED <<nonUnitVars, out, rec, lg, con>>

NextEntry ==
    \/ EntryEmit
    \/ \E outcome \in EntryOutcomes : EntrySettles(outcome)
    \/ EntryTracerFlushed
    \/ EntryLogFlushed

SpecEntry == InitEntry /\ [][NextEntry]_vars

\* ------------------------------------------- RPC to any Durable Object
\* the class behind the stub: wrapped by instrumentDO, or exported as is
RpcTargets == {"instrumented", "plain"}

InitRpcTarget ==
    /\ IdlePipeline
    /\ InitIsolate
    /\ IdleTrace
    /\ IdleUnits
    /\ req = [pc |-> "none"]
    /\ \E args \in SeqsUpTo(ArgValues, MaxArgs), active \in LocalSpanContexts,
          sampled \in BOOLEAN, target \in RpcTargets :
          rpc = [pc |-> "caller", args |-> args, active |-> active,
                 sampled |-> sampled, clientSpan |-> NoSpanContext,
                 wire |-> <<>>, delivered |-> <<>>,
                 serverParent |-> NoSpanContext, serverSpan |-> NoSpanContext,
                 target |-> target]

\* the method of an instrumented class runs behind
\* instrumentRpcHandlerMethod
RpcInstrumentedTargetHandles ==
    /\ rpc.target = "instrumented"
    /\ RpcServerHandle

\* the method of a class that is not instrumented is applied to what the
\* stub sent
RpcPlainTargetHandles ==
    /\ rpc.target = "plain"
    /\ rpc.pc = "sent"
    /\ rpc' = [rpc EXCEPT !.pc = "served", !.delivered = rpc.wire]
    /\ UNCHANGED <<req, nonPropagationVars>>

NextRpcTarget ==
    \/ RpcClientCall
    \/ RpcInstrumentedTargetHandles
    \/ RpcPlainTargetHandles

SpecRpcTarget == InitRpcTarget /\ [][NextRpcTarget]_vars

\* ------------------------------------------------ console instrumentation
\* severityMap of instrumentConsole: the console methods it replaces
ConsoleMethods == {"debug", "log", "info", "warn", "error"}

\* method.toUpperCase(), the severityText of a record made from a console
\* call
SeverityTextOf(method) ==
    CASE method = "debug" -> "DEBUG"
      [] method = "log" -> "LOG"
      [] method = "info" -> "INFO"
      [] method = "warn" -> "WARN"
      [] method = "error" -> "ERROR"

SeverityTexts == {SeverityTextOf(m) : m \in ConsoleMethods} \cup {"FATAL"}

\* ConsoleTransport.prettyPrint: the console method a record is routed to
PrettyPrintMethod(severityText) ==
    CASE severityText \in {"TRACE", "DEBUG"} -> "debug"
      [] severityText = "INFO" -> "info"
      [] severityText = "WARN" -> "warn"
      [] severityText \in {"ERROR", "FATAL"} -> "error"
      [] OTHER -> "log"

\* ConsoleTransport.printLog
PrintLogMethod(pretty, severityText) ==
    IF pretty THEN PrettyPrintMethod(severityText) ELSE "log"

LogTransports == {"console", "otlp"}

InitConsole ==
    /\ IdleProgram
    /\ out = [pc |-> "none"]
    /\ rec = [pc |-> "none"]
    /\ lg = [pc |-> "none"]
    /\ entry = [pc |-> "none"]
    /\ con \in [pc : {"idle"}, instrumentConsole : BOOLEAN,
                transport : LogTransports, pretty : BOOLEAN,
                result : ResultCodes, pending : {<<>>}, nextId : {0},
                printed : {"none"}]

\* a record given to the immediate processor: its export is suspended on
\* scheduler.wait(1)
ConsoleRecord(c, severityText) ==
    [c EXCEPT !.pending = Append(@, [text |-> severityText, id |-> c.nextId]),
              !.nextId = 1 - c.nextId]

\* console[method](...) is called: the replacement installed by
\* instrumentConsole emits a record and calls the original method
CallConsole(c, method) ==
    [(IF c.instrumentConsole THEN ConsoleRecord(c, SeverityTextOf(method)) ELSE c)
        EXCEPT !.printed = method]

\* the program calls a console method once
ConsoleCall(method) ==
    /\ con.pc = "idle"
    /\ con' = [CallConsole(con, method) EXCEPT !.pc = "called"]
    /\ UNCHANGED <<nonUnitVars, out, rec, lg, entry>>

\* the program emits one record through a logger
LoggerEmit(severityText) ==
    /\ con.pc = "idle"
    /\ con' = [ConsoleRecord(con, severityText) EXCEPT !.pc = "called"]
    /\ UNCHANGED <<nonUnitVars, out, rec, lg, entry>>

\* exportLog of the oldest pending record after scheduler.wait(1): the
\* transport is called. ConsoleTransport prints the record with a console
\* method and reports SUCCESS; when another transport reports FAILED the
\* processor calls console.error('Failed to export log:', ...).
ConsoleExportLog ==
    LET r == Head(con.pending)
        c == [con EXCEPT !.pending = Tail(@)]
    IN
    /\ con.pending # <<>>
    /\ con' = IF con.transport = "console"
              THEN CallConsole(c, PrintLogMethod(con.pretty, r.text))
              ELSE IF con.result = "SUCCESS" THEN c
              ELSE CallConsole(c, "error")
    /\ UNCHANGED <<nonUnitVars, out, rec, lg, entry>>

NextConsole ==
    \/ \E method \in ConsoleMethods : ConsoleCall(method)
    \/ \E severityText \in SeverityTexts : LoggerEmit(severityText)
    \/ ConsoleExportLog

\* timers set by scheduler.wait(1) fire and transports answer
SpecConsole == InitConsole /\ [][NextConsole]_vars /\ WF_vars(ConsoleExportLog)

\* C11: once the user handler has settled, the caller has the handler's
\* outcome and the root span is ended, while exportTelemetry, handed once to
\* ctx.waitUntil, and the exports it waits for may still be pending.
C11_ResponseNotDelayed ==
    \A i \in 1..Len(inv) :
        inv[i].pc = "done" =>
            /\ inv[i].result # NoOutcome
            /\ inv[i].result = inv[i].outcome
            /\ inv[i].span.ended = 1
            /\ inv[i].waitUntil = 1

\* C11 witness: the caller has the response while exportTelemetry is still
\* waiting for the logger's flush and the timer of an export has not fired
C11_Witness ==
    \E i \in 1..Len(inv) :
        /\ inv[i].pc = "done"
        /\ inv[i].result = [kind |-> "return", v |-> "Response200"]
        /\ inv[i].et = "logFlush"
        /\ \E e \in flushes[inv[i].flush].snap :
               exports[e].st = "waiting" /\ exports[e].batch # <<>>

\* C17: under the size strategy every batch holds consecutive records in
\* emission order, a later export() holds only later records than an
\* earlier one, what is still queued is newer than everything batched, and
\* the transport is called for the batches in that order.
C17_FifoBatches ==
    config.strategy = "size" =>
        /\ \A e \in 1..Len(exports) :
              \A k \in 1..(Len(exports[e].batch) - 1) :
                  exports[e].batch[k + 1] = exports[e].batch[k] + 1
        /\ \A e1, e2 \in 1..Len(exports) :
              e1 < e2 => \A r1 \in Range(exports[e1].batch),
                            r2 \in Range(exports[e2].batch) : r1 < r2
        /\ \A r1 \in Batched, r2 \in Range(logRecords) : r1 < r2
        /\ \A e1, e2 \in 1..Len(exports) :
              (e1 < e2 /\ e2 \in TransportCalls /\ exports[e1].batch # <<>>)
                  => e1 \in TransportCalls

\* C17 witness: a batch of two records and a later batch have both been
\* handed to the transport while a newer record is still queued
C17_Witness ==
    /\ config.strategy = "size"
    /\ logRecords # <<>>
    /\ \E e1, e2 \in TransportCalls :
          e1 < e2 /\ Len(exports[e1].batch) = 2

\* C12: the processors that receive the log records of a call are the ones
\* created for that call, and no processor instance receives the records
\* of two calls.
C12_ProcessorsPerInvocation ==
    \A c \in 1..Len(calls) :
        calls[c].emitted =>
            /\ calls[c].received = calls[c].conf.logs.processors
            /\ \A d \in 1..Len(calls) :
                  (d # c /\ calls[d].emitted) =>
                      calls[c].received \cap calls[d].received = {}

\* C13: a call whose supplied trace or logs batching strategy is not a
\* BatchStrategy ends in the throw of parseConfig; it never reaches the
\* flow function, where spans and log records are created.
C13_UnknownStrategyThrows ==
    \A c \in 1..Len(calls) :
        (\/ calls[c].supplied.traceStrategy \notin BatchStrategies \cup {"unset"}
         \/ calls[c].supplied.logsStrategy \notin BatchStrategies \cup {"unset"})
            => calls[c].pc = "threw"

\* C18: what getActiveConfig() and getActiveLogsConfig() give a continuation
\* of a call is the configuration resolved for that call (nothing when the
\* call resolved none), however the calls interleave, and the Context that
\* setConfig was given still holds no configuration.
C18_ConfigOfOwnInvocation ==
    /\ contexts[RootContext] = EmptyContext
    /\ \A c \in 1..Len(calls) :
          calls[c].read =>
              /\ calls[c].obsTrace = (IF calls[c].conf.trace.present THEN c ELSE 0)
              /\ calls[c].obsLogs = (IF calls[c].conf.logs.present THEN c ELSE 0)

\* C18 witness: two calls with different configurations are both in their
\* flow, and the first reads its configuration after the second was set up
C18_Witness ==
    /\ Len(calls) = 2
    /\ calls[1].conf.trace.present /\ calls[2].conf.trace.present
    /\ calls[1].supplied # calls[2].supplied
    /\ calls[1].read /\ calls[1].obsTrace = 1
    /\ calls[2].read /\ calls[2].obsTrace = 2
    /\ calls[1].ctx # calls[2].ctx

\* C14 as stated: over all the buckets a traceId ever had, the tail sampler
\* decided at most once and at most one export call was made.
C14_OneDecisionPerTraceId ==
    \A t \in TraceIds :
        /\ Cardinality({b \in BucketsOf(t) : buckets[b].decisions > 0}) <= 1
        /\ \A b \in BucketsOf(t) : buckets[b].decisions <= 1
        /\ Cardinality({e \in 1..Len(spanExports) :
                           spanExports[e].traceId = t}) <= 1

\* C14: for every trace bucket the tail sampler decides at most once, exactly
\* when the bucket is handed off, and the bucket is handed to export at most
\* once; a traceId has at most one bucket that is not handed off, and spans
\* started after a hand-off form a new bucket with a decision of its own.
C14_OneDecisionPerBucket ==
    /\ \A b \in 1..Len(buckets) :
          /\ buckets[b].decisions <= 1
          /\ buckets[b].decisions = 1 <=> buckets[b].state = "COMPLETE"
          /\ Cardinality(ExportsOf(b)) <= 1
    /\ \A t \in TraceIds :
          Cardinality({b \in BucketsOf(t) : buckets[b].state # "COMPLETE"}) <= 1

\* C14 witness: a trace was force-completed with a span still open, a later
\* span of the same traceId formed a second bucket, and both were decided
C14_Witness ==
    \E b, d \in 1..Len(buckets) :
        /\ b < d
        /\ buckets[b].traceId = buckets[d].traceId
        /\ \E k \in 1..Len(buckets[b].spans) : buckets[b].spans[k].st = "truncated"
        /\ buckets[b].decisions = 1 /\ buckets[d].decisions = 1
        /\ ExportsOf(b) # {} /\ ExportsOf(d) # {}

\* C15: with head ratio 0 and the default tail sampler, a completed trace
\* whose root span ended with status ERROR is exported, once, and one whose
\* root span ended with another status is not exported.
C15_ErrorOverridesHeadRejection ==
    ratio = 0 =>
        \A b \in 1..Len(buckets) :
            (/\ buckets[b].state = "COMPLETE"
             /\ \E k \in 1..Len(buckets[b].spans) :
                   buckets[b].spans[k].root /\ buckets[b].spans[k].st = "ended")
                => IF buckets[b].rootStatus = "ERROR"
                   THEN Cardinality(ExportsOf(b)) = 1
                   ELSE ExportsOf(b) = {}

\* C15 witness: with ratio 0, a trace with an ERROR root was exported and a
\* trace with an OK root was dropped
C15_Witness ==
    /\ ratio = 0
    /\ \E b, d \in 1..Len(buckets) :
          /\ buckets[b].state = "COMPLETE" /\ buckets[b].rootStatus = "ERROR"
          /\ ExportsOf(b) # {}
          /\ buckets[d].state = "COMPLETE" /\ buckets[d].rootStatus = "OK"
          /\ ExportsOf(d) = {}

\* C16: under the trace strategy no export call is made for a trace before
\* it is complete with every span ended, and a completed trace the tail
\* sampler accepts gets exactly one export call, holding all its spans.
C16_TraceExportedWhole ==
    \A b \in 1..Len(buckets) :
        /\ ExportsOf(b) # {} =>
              buckets[b].state = "COMPLETE" /\ OpenSpans(buckets[b]) = {}
        /\ (buckets[b].state = "COMPLETE" /\ buckets[b].tail) =>
              /\ Cardinality(ExportsOf(b)) = 1
              /\ \A e \in ExportsOf(b) : spanExports[e].n = Len(buckets[b].spans)

\* C16 witness: a root span ended while its two children were open, the
\* children ended afterwards, and the one export call holds three spans
C16_Witness ==
    \E b \in 1..Len(buckets) :
        /\ Len(buckets[b].spans) = 3
        /\ buckets[b].openAtRootEnd = 2
        /\ \A k \in 1..3 : buckets[b].spans[k].st = "ended"
        /\ buckets[b].state = "COMPLETE"
        /\ \E e \in ExportsOf(b) : spanExports[e].n = 3

C20_AcceptTraceContext ==
    (req.pc = "started" /\ req.hasTrace) =>
        IF req.accept \in {"false", "fnFalse"}
        THEN req.parent = req.active
        ELSE IF req.traceparent \in {NoTraceparent, <<0, 0, 0, 0>>}
             THEN req.parent = req.active
             ELSE /\ req.parent.isRemote
                  /\ req.parent.traceId = req.traceparent[2]
                  /\ req.parent.spanId = req.traceparent[3]
                  /\ req.parent.traceFlags = req.traceparent[4]
                  /\ req.span.traceId = req.traceparent[2]

\* C20 witness: a request with a well-formed traceparent was refused by a
\* function setting, and its root span is in the local trace
C20_Witness ==
    /\ req.pc = "started"
    /\ req.hasTrace
    /\ req.accept = "fnFalse"
    /\ Extract(NoSpanContext, req.traceparent) # NoSpanContext
    /\ IsSpanContextValid(req.active)
    /\ req.span.traceId = req.active.traceId

\* C21 as stated: for a call made through any instrumented fetch function
\* with an active configuration, the outgoing request carries a traceparent
\* header exactly when fetch.includeTraceContext is true, unset or a
\* function returning true.
C21_InjectIffConfigured ==
    (out.pc \in {"passed", "sent"} /\ out.hasConfig) =>
        (out.traceparent # NoTraceparent
            <=> out.include \in {"true", "unset", "fnTrue"})

\* C21: for a call to an http(s) URL with an active configuration, the
\* instrumented global fetch injects a traceparent header exactly when
\* fetch.includeTraceContext is true, unset or a function returning true,
\* and the fetch of a Durable Object stub injects it whatever the setting;
\* a call to another URL is passed on without a span and without a header.
C21_InjectByFetchFunction ==
    (out.pc \in {"passed", "sent"} /\ out.hasConfig) =>
        IF ~out.http
        THEN out.pc = "passed" /\ out.traceparent = NoTraceparent
        ELSE /\ out.pc = "sent"
             /\ out.traceparent # NoTraceparent =>
                   out.traceparent = <<0, out.span.traceId, out.span.spanId,
                                       out.span.traceFlags>>
             /\ IF out.via = "doStub"
                THEN out.traceparent # NoTraceparent
                ELSE out.traceparent # NoTraceparent
                        <=> out.include \in {"true", "unset", "fnTrue"}

\* C21 witness: the fetch of a Durable Object stub sent a traceparent
\* header although fetch.includeTraceContext is false
C21_Witness ==
    /\ out.pc = "sent"
    /\ out.via = "doStub"
    /\ out.include = "false"
    /\ out.traceparent # NoTraceparent

\* C22: a record made while a span is active and without a traceId of the
\* caller's carries the span's traceId, spanId and traceFlags; every record
\* has all three from the active span or all three as the caller gave them.
C22_LogTraceCorrelation ==
    rec.pc = "made" =>
        LET ofSpan == [traceId |-> rec.span.traceId, spanId |-> rec.span.spanId,
                       traceFlags |-> rec.span.traceFlags]
        IN
        /\ (rec.hasActive /\ rec.init.traceId = Undefined) => rec.made = ofSpan
        /\ (~rec.hasActive \/ rec.init.traceId # Undefined) => rec.made = rec.init
        /\ rec.made = ofSpan \/ rec.made = rec.init

\* C22 witness: the caller gave a spanId but no traceId while a span was
\* active, and the record has the span's ids
C22_Witness ==
    /\ rec.pc = "made"
    /\ rec.hasActive
    /\ rec.init.traceId = Undefined
    /\ rec.init.spanId = 9
    /\ rec.made.traceId = rec.span.traceId
    /\ rec.made.spanId = rec.span.spanId

\* C23: every key of the last emitted record has the value of the emit call
\* when the call gave one, and else the value of the nearest logger of the
\* chain that was given one; and every logger's inherited attributes are
\* those of its own chain, whatever children were made from it since.
C23_ChildLoggerAttributes ==
    /\ \A l \in 1..Len(lg.loggers), k \in AttributeKeys :
          lg.loggers[l].inherited[k] = MostSpecific(l, k)
    /\ lg.emitted =>
          \A k \in AttributeKeys :
              /\ lg.made[k] # Absent =>
                    lg.made[k] = (IF lg.attributes[k] # Absent
                                  THEN lg.attributes[k]
                                  ELSE MostSpecific(lg.logger, k))
              /\ lg.attributes[k] \in {1, 2} => lg.made[k] = lg.attributes[k]
              /\ lg.attributes[k] = Absent => lg.made[k] = MostSpecific(lg.logger, k)

\* C23 witness: a logger with a child that was given key "b" emits after the
\* child was made, overriding its own "a": the record has the call's "a"
\* and no "b"
C23_Witness ==
    /\ lg.emitted
    /\ Len(lg.loggers) = 3
    /\ lg.logger = 2
    /\ lg.loggers[3].parent = 2
    /\ lg.loggers[3].given["b"] = 2
    /\ lg.loggers[2].given["a"] = 1
    /\ lg.attributes["a"] = 2
    /\ lg.made["a"] = 2
    /\ lg.made["b"] = Absent

\* C24: an export promise that has not settled is in the processor's
\* exportPromises list, so that the next forceFlush awaits it.
C24_PendingStaysOutstanding ==
    \A e \in 1..Len(exports) :
        ~Settled(exports[e].st) => e \in Range(exportPromises)

\* C25: when exportTelemetry has resolved, the background work tracked by
\* the invocation's ctx.waitUntil has settled and every record it emitted
\* was handed to a transport.
C25_FlushAfterBackground ==
    \A i \in 1..Len(inv) :
        inv[i].et = "resolved" =>
            /\ inv[i].background # "pending"
            /\ \A r \in inv[i].backgroundEmitted :
                  \E e \in TransportCalls : r \in Range(exports[e].batch)

\* C26: once the root span of an invocation has ended, exportTelemetry has
\* been invoked for it (the flow function does both in one finally block),
\* whatever the entry point; and when nothing more can happen every record
\* the handler emitted was covered by a flush.
C26_EveryEntryPointFlushes ==
    entry.pc = "done" =>
        /\ entry.spanEnded = 1
        /\ entry.et # "none"
        /\ entry.et = "resolved" => entry.flushed = entry.emitted

\* C27: the target method of a call made through the instrumented stub got
\* exactly the caller's arguments, whether the target is instrumented or
\* not; and extractAndRemoveRpcContext gives back the caller's list as it
\* is when its first element is not a carrier.
C27_RpcArgumentsTransparent ==
    /\ rpc.pc = "served" => rpc.delivered = rpc.args
    /\ (rpc.args = <<>> \/ ~IsRpcContextCarrier(rpc.args[1])) =>
          ExtractAndRemoveRpcContext(rpc.args, rpc.active).args = rpc.args

\* C28: after one console call or one emitted record the pipeline comes to
\* rest: from some point on no export is pending, so no further record is
\* made and no further transport call follows.
C28_ConsoleQuiescent == <>[](con.pending = <<>>)

\* C29 as stated: what is registered in the isolate was registered by the
\* first invocation.
C29_InstalledByFirstInvocation ==
    initialised => provider = InitProviders(calls[1].conf, 1)

\* C29: tracer provider, logger provider, console instrumentation and
\* propagator are those of the first invocation whose configuration
\* resolved, and no later invocation changes them, whatever its
\* configuration.
C29_InitOneShot ==
    /\ ~initialised => provider = NoProvider
    /\ initialised =>
          \E c \in 1..Len(calls) :
              /\ calls[c].pc # "threw"
              /\ \A d \in 1..(c - 1) : calls[d].pc = "threw"
              /\ provider = InitProviders(calls[c].conf, c)

\* C29 witness: after a first invocation with logs only, a second with a
\* trace configuration and console instrumentation ran, and no tracer
\* provider or console instrumentation is installed
C29_Witness ==
    /\ Len(calls) = 2
    /\ calls[1].pc = "flow" /\ calls[2].pc = "flow"
    /\ ~calls[1].conf.trace.present /\ calls[1].conf.logs.processors # {}
    /\ ~calls[1].conf.logs.instrumentConsole
    /\ calls[2].conf.trace.present /\ calls[2].conf.logs.instrumentConsole
    /\ ~provider.tracer /\ ~provider.console
    /\ provider.propagator = 1
    /\ provider.logProcessors = calls[1].conf.logs.processors

\* C30 as stated: the root span of the first invocation has faas.coldstart
\* true and the root span of every later invocation has it false.
C30_ColdStartFirstInvocation ==
    \A c \in 1..Len(calls) :
        calls[c].pc # "threw" => (calls[c].coldstart <=> c = 1)

\* C30: among the invocations that reach the flow function, and so have a
\* root span, the first has faas.coldstart true and every later one false.
C30_ColdStartOnce ==
    \A c \in 1..Len(calls) :
        calls[c].pc # "threw" =>
            (calls[c].coldstart <=> \A d \in 1..(c - 1) : calls[d].pc = "threw")

\* C30 witness: two invocations are in their flow at the same time, the
\* first with faas.coldstart true and the second with false
C30_Witness ==
    /\ Len(calls) = 2
    /\ calls[1].pc = "flow" /\ calls[2].pc = "flow"
    /\ ~calls[1].read /\ ~calls[2].read
    /\ calls[1].coldstart
    /\ ~calls[2].coldstart
    /\ ~cold_start

====
